---------------------------- MODULE Spec2Model ----------------------------
(***************************************************************************)
(* vapor_chamber_model() of Code/vaporchamer1dcalcs.py as a state machine. *)
(*                                                                         *)
(* One evaluation is a straight-line run through the function body: the    *)
(* configuration (lines 9-55) is the initial state, every assignment of    *)
(* lines 59-131 and 163 is one step, every print of lines 134-164 is one   *)
(* step, and the if/else of lines 155-159 is one step.                     *)
(*                                                                         *)
(* Python floats are modelled as decimal floating-point numbers <<m, e>>   *)
(* (value m * 10^e) with Digits significant digits and round-half-even     *)
(* after every operation; the exponent is unbounded, so overflow to inf    *)
(* and underflow are not modelled.  A float division by zero raises        *)
(* ZeroDivisionError, reading a local before it is bound raises            *)
(* UnboundLocalError; either ends the evaluation.                          *)
(***************************************************************************)
EXTENDS Integers, Sequences, FiniteSets, TLC

\* Significant decimal digits of a modelled float.
Digits == 3

RECURSIVE Pow10(_)
Pow10(n) == IF n = 0 THEN 1 ELSE 10 * Pow10(n - 1)

Abs(x) == IF x < 0 THEN -x ELSE x
Sgn(x) == IF x < 0 THEN -1 ELSE 1

RECURSIVE NumDigits(_)
NumDigits(n) == IF n < 10 THEN 1 ELSE 1 + NumDigits(n \div 10)

Zero == <<0, 0>>

\* The float nearest to m * 10^e (ties to even), normalised: the mantissa has
\* exactly Digits digits, or the number is Zero.
FRound(m, e) ==
    IF m = 0 THEN Zero
    ELSE LET a == Abs(m)
             k == NumDigits(a) - Digits
         IN  IF k <= 0
             THEN <<m * Pow10(-k), e + k>>
             ELSE LET p    == Pow10(k)
                      q    == a \div p
                      r    == a % p
                      up   == (2 * r > p) \/ (2 * r = p /\ q % 2 = 1)
                      q1   == IF up THEN q + 1 ELSE q
                  IN  IF q1 = Pow10(Digits)
                      THEN <<Sgn(m) * Pow10(Digits - 1), e + k + 1>>
                      ELSE <<Sgn(m) * q1, e + k>>

FNeg(a) == <<-a[1], a[2]>>

\* float + float
FAdd(a, b) ==
    IF a[1] = 0 THEN b
    ELSE IF b[1] = 0 THEN a
    ELSE LET hi == IF a[2] >= b[2] THEN a ELSE b
             lo == IF a[2] >= b[2] THEN b ELSE a
             d  == hi[2] - lo[2]
         IN  IF d > Digits + 1 THEN hi
             ELSE FRound(hi[1] * Pow10(d) + lo[1], lo[2])

FSub(a, b) == FAdd(a, FNeg(b))

\* float * float
FMul(a, b) == FRound(a[1] * b[1], a[2] + b[2])

\* float / float, b # 0: the quotient to Digits + 1 digits with a sticky digit.
FDiv(a, b) ==
    IF a[1] = 0 THEN Zero
    ELSE LET n   == Abs(a[1]) * Pow10(Digits + 1)
             q   == n \div Abs(b[1])
             rem == n % Abs(b[1])
             s   == Sgn(a[1]) * Sgn(b[1])
         IN  FRound(s * (10 * q + (IF rem = 0 THEN 0 ELSE 1)),
                    a[2] - b[2] - Digits - 2)

\* float ** n for a small positive integer n
RECURSIVE FPow(_, _)
FPow(a, n) == IF n = 1 THEN a ELSE FMul(FPow(a, n - 1), a)

FLt(a, b) == FSub(a, b)[1] < 0
FLe(a, b) == FSub(a, b)[1] <= 0
FGe(a, b) == FLe(b, a)
FGt(a, b) == FLt(b, a)

IsUnset(v) == Len(v) = 0
IsErr(v)   == Len(v) = 1
Unset      == << >>

(***************************************************************************)
(* Expressions of the source, as trees.                                    *)
(***************************************************************************)
V(n)       == <<"var", n>>
Lit(m, e)  == <<"lit", m, e>>
Add(a, b)  == <<"add", a, b>>
Sub(a, b)  == <<"sub", a, b>>
Mul(a, b)  == <<"mul", a, b>>
Div(a, b)  == <<"div", a, b>>
PowN(a, n) == <<"pow", a, n>>
Radians(a) == <<"radians", a>>
Sin(a)     == <<"sin", a>>
Cos(a)     == <<"cos", a>>
MathPi     == <<"pi">>

\* The orientation and contact angles [deg] the model evaluates.
PhiDegs   == {-90, 0, 30}
ThetaDegs == {0, 60}

\* math.pi, to the model's precision
PiValue == FRound(31415927, -7)

\* math.radians(x): x * (pi / 180)
RadiansValue(v) == FMul(v, FDiv(PiValue, FRound(180, 0)))

\* math.sin and math.cos, tabulated at the angles above
SinDeg(d) == CASE d = -90 -> FRound(-1, 0)
               [] d = 0   -> Zero
               [] d = 30  -> FRound(5, -1)

CosDeg(d) == CASE d = 0  -> FRound(1, 0)
               [] d = 60 -> FRound(5, -1)

SinValue(r) == SinDeg(CHOOSE d \in PhiDegs : RadiansValue(FRound(d, 0)) = r)
CosValue(r) == CosDeg(CHOOSE d \in ThetaDegs : RadiansValue(FRound(d, 0)) = r)

\* The names an expression reads.
RECURSIVE Reads(_)
Reads(t) ==
    CASE t[1] = "var" -> {t[2]}
      [] t[1] \in {"lit", "pi"} -> {}
      [] t[1] \in {"add", "sub", "mul", "div"} -> Reads(t[2]) \cup Reads(t[3])
      [] OTHER -> Reads(t[2])

\* The value of an expression in the frame e, operands left to right: a float,
\* or <<"UnboundLocalError">> / <<"ZeroDivisionError">> when evaluating raises.
RECURSIVE Eval(_, _)
Eval(t, e) ==
    IF t[1] = "var" THEN (IF IsUnset(e[t[2]]) THEN <<"UnboundLocalError">> ELSE e[t[2]])
    ELSE IF t[1] = "lit" THEN FRound(t[2], t[3])
    ELSE IF t[1] = "pi" THEN PiValue
    ELSE IF t[1] \in {"add", "sub", "mul", "div"}
    THEN LET a == Eval(t[2], e)
         IN  IF IsErr(a) THEN a
             ELSE LET b == Eval(t[3], e)
                  IN  IF IsErr(b) THEN b
                      ELSE IF t[1] = "add" THEN FAdd(a, b)
                      ELSE IF t[1] = "sub" THEN FSub(a, b)
                      ELSE IF t[1] = "mul" THEN FMul(a, b)
                      ELSE IF b[1] = 0 THEN <<"ZeroDivisionError">>
                      ELSE FDiv(a, b)
    ELSE LET u == Eval(t[2], e)
         IN  IF IsErr(u) THEN u
             ELSE IF t[1] = "pow" THEN FPow(u, t[3])
             ELSE IF t[1] = "radians" THEN RadiansValue(u)
             ELSE IF t[1] = "sin" THEN SinValue(u)
             ELSE CosValue(u)

(***************************************************************************)
(* 3. DERIVED PARAMETER CALCULATION (lines 57-91): the right-hand side of  *)
(* each assignment, under the name of the variable it is assigned to.      *)
(***************************************************************************)
in_to_m          == Lit(254, -4)
mesh_number_evap == Div(V("mesh_number_evap_wpi"), V("in_to_m"))
mesh_number_cond == Div(V("mesh_number_cond_wpi"), V("in_to_m"))

t_evap_wick == Mul(Mul(Lit(2, 0), V("d_w_evap")), V("num_layers_evap"))
t_cond_wick == Mul(Mul(Lit(2, 0), V("d_w_cond")), V("num_layers_cond"))

epsilon_evap ==
    Sub(Lit(1, 0),
        Div(Mul(Mul(MathPi, V("mesh_number_evap")), V("d_w_evap")), Lit(4, 0)))
epsilon_cond ==
    Sub(Lit(1, 0),
        Div(Mul(Mul(MathPi, V("mesh_number_cond")), V("d_w_cond")), Lit(4, 0)))
rc_eff == Div(Lit(1, 0), Mul(Lit(2, 0), V("mesh_number_evap")))
K_evap ==
    Div(Mul(PowN(V("d_w_evap"), 2), PowN(V("epsilon_evap"), 3)),
        Mul(Lit(122, 0), PowN(Sub(Lit(1, 0), V("epsilon_evap")), 2)))
K_cond ==
    Div(Mul(PowN(V("d_w_cond"), 2), PowN(V("epsilon_cond"), 3)),
        Mul(Lit(122, 0), PowN(Sub(Lit(1, 0), V("epsilon_cond")), 2)))

L_eff              == Div(Add(V("vc_length"), V("evap_length")), Lit(4, 0))
\* The plan area taken from the two footprint areas, which are bound later.
internal_area_from_footprints == Add(V("A_evap"), V("A_cond"))
internal_area      == Mul(V("vc_length"), V("vc_width"))
vol_vapor_space    == Mul(V("internal_area"), V("t_vapor"))
vol_evap_wick_pore == Mul(Mul(V("internal_area"), V("t_evap_wick")), V("epsilon_evap"))
vol_cond_wick_pore == Mul(Mul(V("internal_area"), V("t_cond_wick")), V("epsilon_cond"))
vol_internal_total ==
    Add(Add(V("vol_vapor_space"), V("vol_evap_wick_pore")), V("vol_cond_wick_pore"))
liquid_charge_volume_mL ==
    Mul(Mul(V("vol_internal_total"), V("filling_ratio")), Lit(1, 6))

A_evap      == Mul(V("evap_length"), V("evap_width"))
A_cond      == Sub(Mul(V("vc_length"), V("vc_width")), V("A_evap"))
A_wick_evap == Mul(V("t_evap_wick"), V("vc_width"))
A_wick_cond == Mul(V("t_cond_wick"), V("vc_width"))
A_vapor     == Mul(V("t_vapor"), V("vc_width"))

d_h_vapor ==
    Div(Mul(Mul(Lit(2, 0), V("t_vapor")), V("vc_width")),
        Add(V("t_vapor"), V("vc_width")))

(***************************************************************************)
(* 4. CAPILLARY PERFORMANCE ANALYSIS (lines 93-113)                        *)
(***************************************************************************)
phi   == Radians(V("phi_deg"))
theta == Radians(V("theta_deg"))

dP_cap == Div(Mul(Mul(Lit(2, 0), V("sigma")), Cos(V("theta"))), V("rc_eff"))
dP_l_cond ==
    Div(Mul(Mul(V("mu_l"), V("Q_in")), Div(V("L_eff"), Lit(2, 0))),
        Mul(Mul(Mul(V("rho_l"), V("A_wick_cond")), V("K_cond")), V("h_fg")))
dP_l_evap ==
    Div(Mul(Mul(V("mu_l"), V("Q_in")), Div(V("L_eff"), Lit(2, 0))),
        Mul(Mul(Mul(V("rho_l"), V("A_wick_evap")), V("K_evap")), V("h_fg")))
dP_l    == Add(V("dP_l_cond"), V("dP_l_evap"))
C_vapor == Lit(96, 0)
dP_v ==
    Div(Mul(Mul(Mul(V("C_vapor"), V("mu_v")), V("Q_in")), V("L_eff")),
        Mul(Mul(Mul(Mul(Lit(2, 0), V("rho_v")), V("A_vapor")),
                PowN(V("d_h_vapor"), 2)),
            V("h_fg")))
g        == Lit(981, -2)
dP_g     == Mul(Mul(Mul(V("rho_l"), V("g")), V("L_eff")), Sin(V("phi")))
\* The total with the gravity term subtracted.
dP_total_gravity_subtracted == Sub(Add(V("dP_l"), V("dP_v")), V("dP_g"))
dP_total == Add(Add(V("dP_l"), V("dP_v")), V("dP_g"))

vapor_pressure_term ==
    Div(Mul(Mul(V("C_vapor"), V("mu_v")), V("L_eff")),
        Mul(Mul(Mul(Mul(Lit(2, 0), V("rho_v")), V("A_vapor")),
                PowN(V("d_h_vapor"), 2)),
            V("h_fg")))
liquid_pressure_term ==
    Add(Div(Mul(V("mu_l"), Div(V("L_eff"), Lit(2, 0))),
            Mul(Mul(Mul(V("rho_l"), V("A_wick_cond")), V("K_cond")), V("h_fg"))),
        Div(Mul(V("mu_l"), Div(V("L_eff"), Lit(2, 0))),
            Mul(Mul(Mul(V("rho_l"), V("A_wick_evap")), V("K_evap")), V("h_fg"))))
Q_max ==
    Div(Sub(V("dP_cap"), V("dP_g")),
        Add(V("liquid_pressure_term"), V("vapor_pressure_term")))

(***************************************************************************)
(* 5. THERMAL RESISTANCE NETWORK ANALYSIS (lines 115-131)                  *)
(***************************************************************************)
k_wick_evap ==
    Mul(V("k_l"),
        Div(Add(Add(V("k_shell"), V("k_l")),
                Mul(Sub(Lit(1, 0), V("epsilon_evap")), Sub(V("k_shell"), V("k_l")))),
            Sub(Add(V("k_shell"), V("k_l")),
                Mul(Sub(Lit(1, 0), V("epsilon_evap")), Sub(V("k_shell"), V("k_l"))))))
k_wick_cond ==
    Mul(V("k_l"),
        Div(Add(Add(V("k_shell"), V("k_l")),
                Mul(Sub(Lit(1, 0), V("epsilon_cond")), Sub(V("k_shell"), V("k_l")))),
            Sub(Add(V("k_shell"), V("k_l")),
                Mul(Sub(Lit(1, 0), V("epsilon_cond")), Sub(V("k_shell"), V("k_l"))))))

R_evap_wall    == Div(V("t_evap_wall"), Mul(V("k_shell"), V("A_evap")))
R_evap_wick    == Div(V("t_evap_wick"), Mul(V("k_wick_evap"), V("A_evap")))
R_phase_change == Lit(1, -2)
R_cond_wick    == Div(V("t_cond_wick"), Mul(V("k_wick_cond"), V("A_cond")))
R_cond_wall    == Div(V("t_cond_wall"), Mul(V("k_shell"), V("A_cond")))
\* The series sum without the phase-change resistance.
R_total_ideal_four ==
    Add(Add(Add(V("R_evap_wall"), V("R_evap_wick")), V("R_cond_wick")),
        V("R_cond_wall"))
R_total_ideal ==
    Add(Add(Add(Add(V("R_evap_wall"), V("R_evap_wick")), V("R_phase_change")),
            V("R_cond_wick")),
        V("R_cond_wall"))
R_total_corrected == Mul(V("R_total_ideal"), V("experimental_correction_factor"))

\* line 163, inside the results summary
delta_T == Mul(V("Q_in"), V("R_total_corrected"))

(***************************************************************************)
(* The function body as a sequence of statements, in source order.         *)
(***************************************************************************)
Asg(line, target, expr) ==
    [line |-> line, kind |-> "assign", target |-> target, expr |-> expr,
     tag |-> "", args |-> {}]
Prt(line, tag, args) ==
    [line |-> line, kind |-> "print", target |-> "", expr |-> <<"none">>,
     tag |-> tag, args |-> args]
Branch(line, args) ==
    [line |-> line, kind |-> "if", target |-> "", expr |-> <<"none">>,
     tag |-> "", args |-> args]

Calc ==
    << Asg(59, "in_to_m", in_to_m),
       Asg(60, "mesh_number_evap", mesh_number_evap),
       Asg(61, "mesh_number_cond", mesh_number_cond),
       Asg(64, "t_evap_wick", t_evap_wick),
       Asg(65, "t_cond_wick", t_cond_wick),
       Asg(68, "epsilon_evap", epsilon_evap),
       Asg(69, "epsilon_cond", epsilon_cond),
       Asg(70, "rc_eff", rc_eff),
       Asg(71, "K_evap", K_evap),
       Asg(72, "K_cond", K_cond),
       Asg(75, "L_eff", L_eff),
       Asg(76, "internal_area", internal_area),
       Asg(77, "vol_vapor_space", vol_vapor_space),
       Asg(78, "vol_evap_wick_pore", vol_evap_wick_pore),
       Asg(79, "vol_cond_wick_pore", vol_cond_wick_pore),
       Asg(80, "vol_internal_total", vol_internal_total),
       Asg(81, "liquid_charge_volume_mL", liquid_charge_volume_mL),
       Asg(84, "A_evap", A_evap),
       Asg(85, "A_cond", A_cond),
       Asg(86, "A_wick_evap", A_wick_evap),
       Asg(87, "A_wick_cond", A_wick_cond),
       Asg(88, "A_vapor", A_vapor),
       Asg(91, "d_h_vapor", d_h_vapor),
       Asg(95, "phi", phi),
       Asg(96, "theta", theta),
       Asg(99, "dP_cap", dP_cap),
       Asg(100, "dP_l_cond", dP_l_cond),
       Asg(101, "dP_l_evap", dP_l_evap),
       Asg(102, "dP_l", dP_l),
       Asg(103, "C_vapor", C_vapor),
       Asg(104, "dP_v", dP_v),
       Asg(105, "g", g),
       Asg(106, "dP_g", dP_g),
       Asg(107, "dP_total", dP_total),
       Asg(110, "vapor_pressure_term", vapor_pressure_term),
       Asg(111, "liquid_pressure_term", liquid_pressure_term),
       Asg(113, "Q_max", Q_max),
       Asg(117, "k_wick_evap", k_wick_evap),
       Asg(119, "k_wick_cond", k_wick_cond),
       Asg(123, "R_evap_wall", R_evap_wall),
       Asg(124, "R_evap_wick", R_evap_wick),
       Asg(125, "R_phase_change", R_phase_change),
       Asg(126, "R_cond_wick", R_cond_wick),
       Asg(127, "R_cond_wall", R_cond_wall),
       Asg(128, "R_total_ideal", R_total_ideal),
       Asg(131, "R_total_corrected", R_total_corrected) >>

\* The section headers of the results summary.
SecGeometry   == "--- DERIVED WICK GEOMETRY ---"
SecFabrication == "--- FABRICATION TARGETS ---"
SecConditions == "--- ANALYSIS CONDITIONS ---"
SecPressure   == "--- PRESSURE BALANCE ANALYSIS ---"
SecMetrics    == "--- PREDICTED PERFORMANCE METRICS ---"
Sections == <<SecGeometry, SecFabrication, SecConditions, SecPressure, SecMetrics>>

LineMet      == "YES! CAPILLARY LIMIT: MET"
LineFailed   == "NO! CAPILLARY LIMIT: FAILED"
LineLimited  == "The design is limited to Q_max"
LineQmax     == "Maximum Heat Transport (Q_max)"

\* 6. RESULTS SUMMARY (lines 133-164), the if/else of lines 155-159 as one
\* statement.
ReportBanner ==
    << Prt(134, "====", {}),
       Prt(135, "VAPOR CHAMBER 1D ANALYTICAL MODEL - RESULTS", {}),
       Prt(136, "====", {}) >>
ReportGeometry ==
    << Prt(137, SecGeometry, {}),
       Prt(138, "Total Evaporator Wick Thickness", {"t_evap_wick"}),
       Prt(139, "Total Condenser Wick Thickness", {"t_cond_wick"}) >>
ReportFabrication ==
    << Prt(140, SecFabrication, {}),
       Prt(141, "Target Filling Ratio", {"filling_ratio"}),
       Prt(142, "Required Liquid Charge Volume", {"liquid_charge_volume_mL"}),
       Prt(143, "Target Initial Vacuum", {"target_vacuum_Pa"}) >>
ReportConditions ==
    << Prt(144, SecConditions, {}),
       Prt(145, "Operating Temperature", {"T_op"}),
       Prt(146, "Input Heat Load (Q_in)", {"Q_in"}),
       Prt(147, "Orientation Angle", {"phi_deg"}) >>
ReportPressure ==
    << Prt(148, SecPressure, {}),
       Prt(149, "Max Capillary Pressure (dP_cap)", {"dP_cap"}),
       Prt(150, "Total Pressure Drop (dP_total)", {"dP_total"}),
       Prt(151, "Liquid Drop (dP_l)", {"dP_l"}),
       Prt(152, "Vapor Drop (dP_v)", {"dP_v"}),
       Prt(153, "Gravity Drop (dP_g)", {"dP_g"}) >>
ReportMetrics ==
    << Prt(154, SecMetrics, {}),
       Branch(155, {"dP_cap", "dP_total"}),
       Prt(160, LineQmax, {"Q_max"}),
       Prt(161, "Ideal Thermal Resistance (R_ideal)", {"R_total_ideal"}),
       Prt(162, "Corrected Thermal Resistance (R_corrected)", {"R_total_corrected"}),
       Asg(163, "delta_T", delta_T),
       Prt(164, "Predicted Corrected Temp. Drop", {"delta_T"}) >>

\* A results summary whose pressure section comes before the analysis conditions.
ReportPressureFirst ==
    ReportBanner \o ReportGeometry \o ReportFabrication \o ReportPressure
        \o ReportConditions \o ReportMetrics

Report ==
    ReportBanner \o ReportGeometry \o ReportFabrication \o ReportConditions
        \o ReportPressure \o ReportMetrics

\* The test of line 155 reversed.
CapillaryLimitMetReversed(e) == FLe(e["dP_cap"], e["dP_total"])
\* The test of line 155 with > for >=.
CapillaryLimitMetStrict(e) == FGt(e["dP_cap"], e["dP_total"])

\* line 155: dP_cap >= dP_total
CapillaryLimitMet(e) == FGe(e["dP_cap"], e["dP_total"])
\* lines 156 and 158-159: what each branch prints, with the names it reads
ThenLines == <<LineMet>>
ThenArgs  == {"Q_in"}
ElseLines == <<LineFailed, LineLimited>>
ElseArgs  == {"Q_max"}

Program == Calc \o Report
Returned == Len(Program) + 1

ConfigNames ==
    {"T_op", "Q_in", "phi_deg", "filling_ratio", "target_vacuum_Pa",
     "experimental_correction_factor", "vc_length", "vc_width", "t_evap_wall",
     "t_cond_wall", "t_vapor", "evap_length", "evap_width", "k_shell",
     "mesh_number_evap_wpi", "d_w_evap", "num_layers_evap",
     "mesh_number_cond_wpi", "d_w_cond", "num_layers_cond", "rho_l", "rho_v",
     "mu_l", "mu_v", "sigma", "h_fg", "k_l", "theta_deg"}
DerivedNames ==
    {Program[i].target : i \in {j \in 1..Len(Program) : Program[j].kind = "assign"}}
Names == ConfigNames \cup DerivedNames

\* The names a statement reads.
StmtReads(s) == IF s.kind = "assign" THEN Reads(s.expr) ELSE s.args

\* The derivation stage a source line belongs to: 1 geometry and mesh, 2 volumes
\* and areas, 3 pressures, 4 resistances, 5 report.
Stage(line) ==
    IF line <= 72 THEN 1
    ELSE IF line <= 91 THEN 2
    ELSE IF line <= 113 THEN 3
    ELSE IF line <= 131 THEN 4
    ELSE 5

\* The frame after the assignments first..last, or up to the one that raises.
RECURSIVE RunCalc(_, _, _)
RunCalc(e, first, last) ==
    IF first > last THEN e
    ELSE LET s == Program[first]
             v == Eval(s.expr, e)
         IN  IF IsErr(v) THEN e
             ELSE RunCalc([e EXCEPT ![s.target] = v], first + 1, last)

(***************************************************************************)
(* 1./2. MODEL CONFIGURATION & INPUTS, THERMOPHYSICAL PROPERTIES           *)
(* (lines 7-55).  The source fixes one configuration; the model draws the  *)
(* fields the pressure balance and the error cases depend on from small    *)
(* sets that contain the source's value.                                   *)
(***************************************************************************)
\* Layer counts 0..MaxLayers besides the source's 5.
MaxLayers == 1
\* Heat loads 150 * 10^j W, j in 0..MaxDecade, besides the loads at Q_max.
MaxDecade == 1

F(m, e) == FRound(m, e)

LayerCounts == (0..MaxLayers) \cup {5}
EvapWires   == {F(51, -6), F(200, -6)}
CondWires   == {F(15, -5), F(50, -5)}
BaseLoads   == {F(150, j) : j \in 0..MaxDecade}

\* The next float above and below a.
FSucc(a) == FAdd(a, <<1, a[2]>>)
FPred(a) == IF a[1] = Pow10(Digits - 1) THEN <<Pow10(Digits) - 1, a[2] - 1>>
            ELSE FSub(a, <<1, a[2]>>)

DefaultConfig ==
    [n \in Names |->
       CASE n = "T_op"        -> FAdd(F(70, 0), F(27315, -2))
         [] n = "Q_in"        -> F(150, 0)
         [] n = "phi_deg"     -> F(0, 0)
         [] n = "filling_ratio"    -> F(30, -2)
         [] n = "target_vacuum_Pa" -> F(10, 0)
         [] n = "experimental_correction_factor" -> F(12, -1)
         [] n = "vc_length"   -> F(70, -3)
         [] n = "vc_width"    -> F(70, -3)
         [] n = "t_evap_wall" -> F(225, -5)
         [] n = "t_cond_wall" -> F(225, -5)
         [] n = "t_vapor"     -> F(192, -5)
         [] n = "evap_length" -> F(20, -3)
         [] n = "evap_width"  -> F(20, -3)
         [] n = "k_shell"     -> F(380, 0)
         [] n = "mesh_number_evap_wpi" -> F(200, 0)
         [] n = "d_w_evap"    -> F(51, -6)
         [] n = "num_layers_evap" -> F(5, 0)
         [] n = "mesh_number_cond_wpi" -> F(80, 0)
         [] n = "d_w_cond"    -> F(15, -5)
         [] n = "num_layers_cond" -> F(5, 0)
         [] n = "rho_l"       -> F(9778, -1)
         [] n = "rho_v"       -> F(198, -3)
         [] n = "mu_l"        -> F(404, -6)
         [] n = "mu_v"        -> F(109, -7)
         [] n = "sigma"       -> F(644, -4)
         [] n = "h_fg"        -> F(233, 4)
         [] n = "k_l"         -> F(668, -3)
         [] n = "theta_deg"   -> F(0, 0)
         [] OTHER             -> Unset]

\* The configurations without the heat load.
Geometries ==
    {[DefaultConfig EXCEPT !["num_layers_evap"] = F(le, 0),
                           !["num_layers_cond"] = F(lc, 0),
                           !["d_w_evap"] = we, !["d_w_cond"] = wc,
                           !["phi_deg"] = F(p, 0), !["theta_deg"] = F(t, 0)] :
        <<le, lc, we, wc, p, t>> \in
            LayerCounts \X LayerCounts \X EvapWires \X CondWires \X PhiDegs \X ThetaDegs}

IdxQmax == CHOOSE i \in 1..Len(Calc) : Calc[i].target = "Q_max"

\* The heat loads evaluated for a geometry: the base loads and, where Q_max is
\* defined and positive, Q_max and its two neighbouring floats.
Loads(c) ==
    LET q == RunCalc(c, 1, IdxQmax)["Q_max"]
    IN  BaseLoads \cup
        (IF IsUnset(q) \/ q[1] <= 0 THEN {} ELSE {q, FSucc(q), FPred(q)})

Configs == UNION {{[c EXCEPT !["Q_in"] = q] : q \in Loads(c)} : c \in Geometries}

VARIABLES
    env,      \* the frame: name -> float, Unset before the name is bound
    writes,   \* name -> how many times it has been assigned
    output,   \* the lines printed so far
    pc,       \* index into Program of the next statement; Returned at the end
    error     \* "none", or the exception that ended the evaluation

vars == <<env, writes, output, pc, error>>

Init ==
    /\ env \in Configs
    /\ writes = [n \in Names |-> IF n \in ConfigNames THEN 1 ELSE 0]
    /\ output = << >>
    /\ pc = 1
    /\ error = "none"

Running == error = "none" /\ pc <= Len(Program)

\* Whether executing statement s in frame e raises, and what.
Raised(s, e) ==
    IF s.kind = "assign"
    THEN LET v == Eval(s.expr, e) IN IF IsErr(v) THEN v[1] ELSE "none"
    ELSE LET rd == IF s.kind = "print" THEN s.args
                   ELSE s.args \cup (IF \E n \in s.args : IsUnset(e[n]) THEN {}
                                     ELSE IF CapillaryLimitMet(e) THEN ThenArgs
                                     ELSE ElseArgs)
         IN  IF \E n \in rd : IsUnset(e[n]) THEN "UnboundLocalError" ELSE "none"

\* An assignment statement.
Assign ==
    /\ Running
    /\ Program[pc].kind = "assign"
    /\ Raised(Program[pc], env) = "none"
    /\ env' = [env EXCEPT ![Program[pc].target] = Eval(Program[pc].expr, env)]
    /\ writes' = [writes EXCEPT ![Program[pc].target] = @ + 1]
    /\ pc' = pc + 1
    /\ UNCHANGED <<output, error>>

\* A print statement.
PrintLine ==
    /\ Running
    /\ Program[pc].kind = "print"
    /\ Raised(Program[pc], env) = "none"
    /\ output' = Append(output, Program[pc].tag)
    /\ pc' = pc + 1
    /\ UNCHANGED <<env, writes, error>>

\* Lines 155-156: the capillary limit is met.
VerdictMet ==
    /\ Running
    /\ Program[pc].kind = "if"
    /\ Raised(Program[pc], env) = "none"
    /\ CapillaryLimitMet(env)
    /\ output' = output \o ThenLines
    /\ pc' = pc + 1
    /\ UNCHANGED <<env, writes, error>>

\* Lines 155, 157-159: the capillary limit is not met.
VerdictFailed ==
    /\ Running
    /\ Program[pc].kind = "if"
    /\ Raised(Program[pc], env) = "none"
    /\ ~CapillaryLimitMet(env)
    /\ output' = output \o ElseLines
    /\ pc' = pc + 1
    /\ UNCHANGED <<env, writes, error>>

\* The statement raises: the exception leaves vapor_chamber_model uncaught.
Raise ==
    /\ Running
    /\ Raised(Program[pc], env) # "none"
    /\ error' = Raised(Program[pc], env)
    /\ UNCHANGED <<env, writes, output, pc>>

Next == Assign \/ PrintLine \/ VerdictMet \/ VerdictFailed \/ Raise

Spec == Init /\ [][Next]_vars

(***************************************************************************)
(* Properties                                                              *)
(***************************************************************************)
Done     == error = "none" /\ pc = Returned
Bound(n) == ~IsUnset(env[n])
Val(n)   == env[n]
Has(l)   == \E i \in DOMAIN output : output[i] = l
Count(l) == Cardinality({i \in DOMAIN output : output[i] = l})
FAbs(a)  == <<Abs(a[1]), a[2]>>

IdxIf == CHOOSE i \in 1..Len(Program) : Program[i].kind = "if"
\* The if/else of lines 155-159 has been executed.
VerdictGiven == pc > IdxIf

\* liquid_pressure_term + vapor_pressure_term, the denominator of line 113
Denominator == FAdd(Val("liquid_pressure_term"), Val("vapor_pressure_term"))
DenominatorBound == Bound("liquid_pressure_term") /\ Bound("vapor_pressure_term")

\* The rounding tolerance of the pressure balance: 32 unit roundoffs (a unit
\* roundoff is 5 * 10^-Digits) of the summed magnitudes of the pressure terms.
Tolerance ==
    FMul(FRound(32 * 5, -Digits),
         FAdd(FAdd(FAbs(Val("dP_cap")), FAbs(Val("dP_g"))),
              FAdd(FAdd(FAbs(Val("dP_l_cond")), FAbs(Val("dP_l_evap"))),
                   FAbs(Val("dP_v")))))
\* (Q_in - Q_max) * (liquid_pressure_term + vapor_pressure_term): how far the
\* load is past Q_max, as a pressure.
Excess == FMul(FSub(Val("Q_in"), Val("Q_max")), Denominator)

\* C1 (as claimed): with a positive coefficient sum the verdict is MET exactly
\* when Q_in <= Q_max and FAILED exactly when Q_in > Q_max, and at Q_in = Q_max
\* dP_cap = dP_total.
C1_VerdictExactAtQmax ==
    (VerdictGiven /\ FGt(Denominator, Zero)) =>
        /\ Has(LineMet) <=> FLe(Val("Q_in"), Val("Q_max"))
        /\ Has(LineFailed) <=> FGt(Val("Q_in"), Val("Q_max"))
        /\ Val("Q_in") = Val("Q_max") => Val("dP_cap") = Val("dP_total")
        /\ Has(LineFailed) => FLt(Val("Q_max"), Val("Q_in"))

\* C1 (amended): with a positive coefficient sum the verdict agrees with the
\* comparison of Q_in with Q_max up to the rounding tolerance: MET only if Q_in
\* is not above Q_max by more than the tolerance, FAILED only if Q_in is not
\* below Q_max by more than the tolerance, and at Q_in = Q_max dP_cap and
\* dP_total differ by at most the tolerance.
C1_VerdictWithinTolerance ==
    (VerdictGiven /\ FGt(Denominator, Zero)) =>
        /\ Count(LineMet) + Count(LineFailed) = 1
        /\ Has(LineMet) => FLe(Excess, Tolerance)
        /\ Has(LineFailed) => FGe(Excess, FNeg(Tolerance))
        /\ Val("Q_in") = Val("Q_max") =>
              FLe(FAbs(FSub(Val("dP_cap"), Val("dP_total"))), Tolerance)
C1_Witness ==
    /\ VerdictGiven /\ FGt(Denominator, Zero)
    /\ Val("Q_in") = Val("Q_max") /\ Has(LineFailed)

\* C2: once the if/else of line 155 has run exactly one verdict has been
\* printed, MET if and only if dP_cap >= dP_total (equality is MET), FAILED
\* otherwise, and the line naming Q_max as the limit is printed if and only if
\* the verdict is FAILED; before it, none of the three lines is printed.
C2_OneVerdict ==
    /\ ~VerdictGiven =>
          ~Has(LineMet) /\ ~Has(LineFailed) /\ ~Has(LineLimited)
    /\ VerdictGiven =>
          /\ Count(LineMet) + Count(LineFailed) = 1
          /\ Has(LineMet) <=> FGe(Val("dP_cap"), Val("dP_total"))
          /\ Has(LineLimited) <=> Has(LineFailed)
          /\ Count(LineLimited) <= 1
C2_Witness ==
    VerdictGiven /\ Val("dP_cap") = Val("dP_total") /\ Has(LineMet)

PorosityInvalid ==
    \E n \in {"epsilon_evap", "epsilon_cond"} :
        Bound(n) /\ ~(FGt(Val(n), Zero) /\ FLt(Val(n), FRound(1, 0)))
PressureAndResistanceNames ==
    {"dP_cap", "dP_l_cond", "dP_l_evap", "dP_l", "dP_v", "dP_g", "dP_total",
     "Q_max", "R_evap_wall", "R_evap_wick", "R_cond_wick", "R_cond_wall",
     "R_total_ideal", "R_total_corrected"}

\* C3: when a porosity is outside (0,1) no pressure term and no thermal
\* resistance is ever evaluated and nothing is printed.
C3_PorosityRejected ==
    PorosityInvalid =>
        /\ \A n \in PressureAndResistanceNames : ~Bound(n)
        /\ output = << >>

ZeroLayers == Val("num_layers_evap") = Zero \/ Val("num_layers_cond") = Zero

\* C4: with a layer count of 0 the evaluation never divides by the zero wick
\* area (no ZeroDivisionError leaves the liquid pressure drop), and it never
\* returns a report.
C4_ZeroLayersGuarded ==
    ZeroLayers => error # "ZeroDivisionError" /\ ~Done

\* C5: when liquid_pressure_term + vapor_pressure_term is zero or negative
\* neither verdict and no Q_max value is printed.
C5_DegenerateDistinct ==
    (DenominatorBound /\ FLe(Denominator, Zero)) =>
        ~Has(LineMet) /\ ~Has(LineFailed) /\ ~Has(LineLimited) /\ ~Has(LineQmax)

\* The configuration the evaluation started from, with heat load q.
ConfigWithLoad(q) ==
    [n \in Names |-> IF n = "Q_in" THEN q
                     ELSE IF n \in ConfigNames THEN env[n] ELSE Unset]
PositiveInputs ==
    \A n \in ConfigNames \ {"phi_deg", "theta_deg"} : env[n][1] > 0

\* C6: for positive geometry and fluid inputs, a second evaluation that differs
\* only in a larger base load Q_in has strictly larger dP_l and dP_v and the same
\* dP_cap, dP_g and Q_max.
C6_MonotoneInLoad ==
    (Bound("Q_max") /\ PositiveInputs) =>
        \A q \in BaseLoads :
            FGt(q, Val("Q_in")) =>
                LET r == RunCalc(ConfigWithLoad(q), 1, IdxQmax)
                IN  /\ FGt(r["dP_l"], Val("dP_l"))
                    /\ FGt(r["dP_v"], Val("dP_v"))
                    /\ r["dP_cap"] = Val("dP_cap")
                    /\ r["dP_g"] = Val("dP_g")
                    /\ r["Q_max"] = Val("Q_max")

\* C7: dP_total is dP_l + dP_v + dP_g and dP_l is dP_l_cond + dP_l_evap; the
\* gravity term is added whatever its sign.
C7_TotalIsSum ==
    /\ Bound("dP_l") => Val("dP_l") = FAdd(Val("dP_l_cond"), Val("dP_l_evap"))
    /\ Bound("dP_total") =>
          Val("dP_total") = FAdd(FAdd(Val("dP_l"), Val("dP_v")), Val("dP_g"))
C7_Witness == Bound("dP_total") /\ Val("dP_g")[1] < 0 /\ Val("dP_v")[1] > 0

\* C8: R_total_ideal is the sum of the five component resistances and
\* R_total_corrected is R_total_ideal times experimental_correction_factor.
C8_ResistanceSum ==
    /\ Bound("R_total_ideal") =>
          Val("R_total_ideal") =
              FAdd(FAdd(FAdd(FAdd(Val("R_evap_wall"), Val("R_evap_wick")),
                             Val("R_phase_change")),
                        Val("R_cond_wick")),
                   Val("R_cond_wall"))
    /\ Bound("R_total_corrected") =>
          Val("R_total_corrected") =
              FMul(Val("R_total_ideal"), Val("experimental_correction_factor"))
C8_Witness == Bound("R_total_corrected") /\ Val("R_phase_change") = FRound(1, -2)

IsSection(l) == \E i \in DOMAIN Sections : Sections[i] = l

\* C9: an evaluation that returns has printed the five section headers, each
\* once, in the order geometry, fabrication, conditions, pressure, metrics.
C9_FiveSections == Done => SelectSeq(output, IsSection) = Sections
C9_Witness == Done /\ Has(LineFailed)

\* C10: no derived name is assigned twice, a name is bound exactly when it has
\* been assigned, the statement about to run reads only bound names and assigns
\* a name not yet assigned, statements run in stage order, and on return every
\* derived name has been assigned exactly once.
C10_ForwardFlow ==
    /\ \A n \in ConfigNames : writes[n] = 1 /\ Bound(n)
    /\ \A n \in DerivedNames : writes[n] <= 1 /\ (writes[n] = 1 <=> Bound(n))
    /\ error # "UnboundLocalError"
    /\ pc <= Len(Program) =>
          /\ \A n \in StmtReads(Program[pc]) : Bound(n)
          /\ Program[pc].kind = "if" => Bound("Q_in") /\ Bound("Q_max")
          /\ Program[pc].kind = "assign" => writes[Program[pc].target] = 0
          /\ \A i \in 1..(pc - 1) :
                Stage(Program[i].line) <= Stage(Program[pc].line)
    /\ Done => \A n \in DerivedNames : writes[n] = 1
C10_Witness == Done /\ Bound("delta_T")
=============================================================================
